---- MODULE Spec2Model ----
(***************************************************************************)
(* Model of scripts/python/autosave.py: AutosaveManager, the timer-driven  *)
(* autosave prompt of a Houdini session.                                   *)
(*                                                                         *)
(* The manager's fields are the variables autosave_session_mute,           *)
(* autosave_timer and autosave_msg.  QTimer and QMessageBox objects live   *)
(* in two heaps (timers, msgs) keyed by object identity; an object made    *)
(* without a parent is owned by its Python reference and is destroyed when *)
(* the attribute that holds it is rebound.  Every handler is an operator   *)
(* on a record of the whole state, so that the synchronous re-entrant      *)
(* calls (hipFile.save -> AfterSave callback, close() -> finished signal)  *)
(* are part of the handler that makes them.                                *)
(***************************************************************************)
EXTENDS Integers, FiniteSets, Sequences, TLC

\* Number of clock ticks the model divides one autosave interval into.
TicksPerInterval == 2

\* Python's None.
None == 0

\* The captions of the three buttons check_autosave adds to the prompt.
BtnSave == "Save"
BtnNo == "No"
BtnMute == "No, don't ask again in this session"
Buttons == {BtnSave, BtnNo, BtnMute}

\* clickedButton() of a prompt no button of which was clicked.
NoButton == "none"

\* hou.hipFileEventType values the host passes to the callback.
HipFileEventTypes == {"BeforeSave", "AfterSave", "BeforeLoad", "AfterLoad", "BeforeClear", "AfterClear"}

\* The ways the user ends a prompt: a button, the Escape key, the window's close box.
Answers == Buttons \cup {"Escape", "CloseWindow"}

VARIABLES
    pc,                     \* "loaded" after __init__, "running" after setup()
    gui_thread,             \* QApplication exists and the code runs on its thread
    host_autosave,          \* the host's own autosave setting ("autosave on")
    autosave_session_mute,
    autosave_timer,         \* None or the identity of a QTimer
    autosave_msg,           \* None or the identity of a QMessageBox
    timers,                 \* live QTimer objects: identity -> [active, remaining]
    msgs,                   \* live QMessageBox objects: identity -> [visible, clicked]
    last_op,                \* the operation that produced this state
    last_arg,               \* its argument (answer, event type, ...)
    shown,                  \* prompts created and shown by that operation
    saves,                  \* hou.hipFile.save() calls made by that operation
    closes,                 \* open prompts that operation closed through close()
    pre_remaining,          \* ticks left on the active autosave_timer before it (-1: none active)
    fires                   \* parity of the number of check_autosave firings

vars == <<pc, gui_thread, host_autosave, autosave_session_mute, autosave_timer,
          autosave_msg, timers, msgs, last_op, last_arg, shown, saves,
          closes, pre_remaining, fires>>

----------------------------------------------------------------------------
\* Object heaps

\* The identity of a newly constructed object: one no live object has.
FreshId(heap) ==
    CHOOSE i \in 1..(Cardinality(DOMAIN heap) + 1) : i \notin DOMAIN heap

HeapPut(heap, id, obj) ==
    [i \in (DOMAIN heap) \cup {id} |-> IF i = id THEN obj ELSE heap[i]]

HeapDel(heap, id) ==
    [i \in (DOMAIN heap) \ {id} |-> heap[i]]

\* Timers that can still fire, and prompts that are on screen.
PendingTimers(heap) == {i \in DOMAIN heap : heap[i].active}
OpenMsgs(heap) == {i \in DOMAIN heap : heap[i].visible}

\* The state a handler runs on: the fields, the heaps, what the host answers
\* (save_ok: hou.hipFile.save() does not raise), and the step's counters.
Cur(ok) ==
    [mute |-> autosave_session_mute, timer |-> autosave_timer, msg |-> autosave_msg,
     timers |-> timers, msgs |-> msgs, gui |-> gui_thread, host |-> host_autosave,
     save_ok |-> ok, shown |-> 0, saves |-> 0, closes |-> 0]

----------------------------------------------------------------------------
\* AutosaveManager

RECURSIVE start_autosave_timer(_, _)

autosave_enabled(s) == s.host

should_autosave_timer_run_IgnoresMute(s) == s.gui

should_autosave_timer_run(s) ==
    IF s.mute THEN FALSE ELSE s.gui

is_autosave_timer_active(s) ==
    s.timer # None /\ s.timers[s.timer].active

on_scene_file_saved(s) ==
    IF should_autosave_timer_run(s) THEN start_autosave_timer(s, FALSE) ELSE s

scene_event_callback(s, event_type) ==
    IF event_type = "AfterSave" THEN on_scene_file_saved(s) ELSE s

\* hou.hipFile.save(): the host runs the registered callback synchronously
\* around the write; a failed write raises and save_scene swallows it.
save_scene(s) ==
    LET called == [s EXCEPT !.saves = @ + 1]
        before == scene_event_callback(called, "BeforeSave")
    IN  IF s.save_ok THEN scene_event_callback(before, "AfterSave") ELSE before

auto_save_done_SavesOnAnyButton(s) ==
    LET button == IF s.msg # None THEN s.msgs[s.msg].clicked ELSE NoButton
    IN  IF button # NoButton /\ button = BtnMute
        THEN start_autosave_timer([s EXCEPT !.mute = TRUE], TRUE)
        ELSE IF button # NoButton
        THEN start_autosave_timer(save_scene(s), FALSE)
        ELSE start_autosave_timer(s, FALSE)

auto_save_done_NoRestartOnNo(s) ==
    LET button == IF s.msg # None THEN s.msgs[s.msg].clicked ELSE NoButton
    IN  IF button # NoButton /\ button = BtnSave
        THEN start_autosave_timer(save_scene(s), FALSE)
        ELSE IF button # NoButton /\ button = BtnMute
        THEN start_autosave_timer([s EXCEPT !.mute = TRUE], TRUE)
        ELSE IF button = BtnNo
        THEN s
        ELSE start_autosave_timer(s, FALSE)

auto_save_done_MuteKeepsTimer(s) ==
    LET button == IF s.msg # None THEN s.msgs[s.msg].clicked ELSE NoButton
    IN  IF button # NoButton /\ button = BtnSave
        THEN start_autosave_timer(save_scene(s), FALSE)
        ELSE IF button # NoButton /\ button = BtnMute
        THEN [s EXCEPT !.mute = TRUE]
        ELSE start_autosave_timer(s, FALSE)

auto_save_done(s) ==
    LET button == IF s.msg # None THEN s.msgs[s.msg].clicked ELSE NoButton
    IN  IF button # NoButton /\ button = BtnSave
        THEN start_autosave_timer(save_scene(s), FALSE)
        ELSE IF button # NoButton /\ button = BtnMute
        THEN start_autosave_timer([s EXCEPT !.mute = TRUE], TRUE)
        ELSE start_autosave_timer(s, FALSE)

\* self.autosave_timer.stop()
QTimer_stop(s) ==
    [s EXCEPT !.timers[s.timer].active = FALSE]

\* self.autosave_msg.close(): a prompt that is on screen is rejected, which
\* hides it and emits finished (no button was clicked); one that was already
\* answered is hidden and emits nothing.
QMessageBox_close(s) ==
    IF s.msgs[s.msg].visible
    THEN auto_save_done([s EXCEPT !.msgs[s.msg].visible = FALSE, !.closes = @ + 1])
    ELSE s

\* self.autosave_timer = QTimer(): the new object is built, the attribute is
\* rebound, and the timer it held before loses its only reference.
assign_autosave_timer_KeepsOld(s) ==
    LET n == FreshId(s.timers)
    IN  [s EXCEPT !.timers = HeapPut(s.timers, n, [active |-> FALSE, remaining |-> 0]),
                  !.timer = n]

assign_autosave_timer(s) ==
    LET n == FreshId(s.timers)
        built == HeapPut(s.timers, n, [active |-> FALSE, remaining |-> 0])
    IN  [s EXCEPT !.timers = IF s.timer # None THEN HeapDel(built, s.timer) ELSE built,
                  !.timer = n]

\* self.autosave_timer.start(int(self.autosave_interval * 60 * 1000))
QTimer_start(s) ==
    [s EXCEPT !.timers[s.timer] = [active |-> TRUE, remaining |-> TicksPerInterval]]

start_autosave_timer_KeepsRunningTimer(s, quit) ==
    IF is_autosave_timer_active(s) /\ ~quit
    THEN s
    ELSE LET stopped == IF is_autosave_timer_active(s)
                        THEN LET st == QTimer_stop(s)
                             IN  IF st.msg # None THEN QMessageBox_close(st) ELSE st
                        ELSE s
         IN  IF quit THEN stopped
             ELSE IF ~should_autosave_timer_run(stopped) THEN stopped
             ELSE QTimer_start(assign_autosave_timer(stopped))

start_autosave_timer(s, quit) ==
    LET stopped == IF is_autosave_timer_active(s)
                   THEN LET st == QTimer_stop(s)
                        IN  IF st.msg # None THEN QMessageBox_close(st) ELSE st
                   ELSE s
    IN  IF quit THEN stopped
        ELSE IF ~should_autosave_timer_run(stopped) THEN stopped
        ELSE QTimer_start(assign_autosave_timer(stopped))

\* self.autosave_msg = QMessageBox() ... show(): the prompt the attribute held
\* before loses its only reference and is destroyed with its window.
check_autosave_PromptsWhenEnabled(s) ==
    IF autosave_enabled(s)
    THEN LET n == FreshId(s.msgs)
             built == HeapPut(s.msgs, n, [visible |-> TRUE, clicked |-> NoButton])
         IN  [s EXCEPT !.msgs = IF s.msg # None THEN HeapDel(built, s.msg) ELSE built,
                       !.msg = n,
                       !.shown = @ + 1]
    ELSE s

check_autosave(s) ==
    IF ~autosave_enabled(s)
    THEN LET n == FreshId(s.msgs)
             built == HeapPut(s.msgs, n, [visible |-> TRUE, clicked |-> NoButton])
         IN  [s EXCEPT !.msgs = IF s.msg # None THEN HeapDel(built, s.msg) ELSE built,
                       !.msg = n,
                       !.shown = @ + 1]
    ELSE s

setup_NoTimer(s) == s

setup(s) ==
    IF should_autosave_timer_run(s) THEN start_autosave_timer(s, FALSE) ELSE s

----------------------------------------------------------------------------
\* The state machine

\* Ticks left on the active autosave_timer, -1 when it is not active.
Remaining ==
    IF autosave_timer # None /\ timers[autosave_timer].active
    THEN timers[autosave_timer].remaining
    ELSE -1

\* The state a handler returned becomes the next state.
Commit(s, op, arg) ==
    /\ autosave_session_mute' = s.mute
    /\ autosave_timer' = s.timer
    /\ autosave_msg' = s.msg
    /\ timers' = s.timers
    /\ msgs' = s.msgs
    /\ shown' = s.shown
    /\ saves' = s.saves
    /\ closes' = s.closes
    /\ last_op' = op
    /\ last_arg' = arg
    /\ pre_remaining' = Remaining
    /\ UNCHANGED <<gui_thread, host_autosave>>

Init ==
    /\ pc = "loaded"
    /\ gui_thread \in BOOLEAN
    /\ host_autosave \in BOOLEAN
    /\ autosave_session_mute = FALSE
    /\ autosave_timer = None
    /\ autosave_msg = None
    /\ timers = <<>>
    /\ msgs = <<>>
    /\ last_op = "init"
    /\ last_arg = "none"
    /\ shown = 0
    /\ saves = 0
    /\ closes = 0
    /\ pre_remaining = -1
    /\ fires = 0

\* autosave_manager.setup() at module load.
Setup ==
    /\ pc = "loaded"
    /\ pc' = "running"
    /\ Commit(setup(Cur(TRUE)), "setup", "none")
    /\ UNCHANGED fires

\* Time passes: every pending timer moves one tick towards its timeout.
\* A timer that is due fires before more time passes.
TimerTick ==
    /\ PendingTimers(timers) # {}
    /\ \A t \in PendingTimers(timers) : timers[t].remaining > 0
    /\ timers' = [t \in DOMAIN timers |->
                    IF timers[t].active
                    THEN [timers[t] EXCEPT !.remaining = @ - 1]
                    ELSE timers[t]]
    /\ last_op' = "tick"
    /\ last_arg' = "none"
    /\ shown' = 0
    /\ saves' = 0
    /\ closes' = 0
    /\ pre_remaining' = Remaining
    /\ UNCHANGED <<pc, gui_thread, host_autosave, autosave_session_mute,
                   autosave_timer, autosave_msg, msgs, fires>>

\* A pending single-shot timer times out: it becomes inactive and its
\* timeout signal runs check_autosave.
TimerFire ==
    /\ \E t \in PendingTimers(timers) :
        /\ timers[t].remaining = 0
        /\ LET s == Cur(TRUE)
               expired == [s EXCEPT !.timers[t].active = FALSE]
           IN  Commit(check_autosave(expired), "timeout", "none")
    /\ fires' = 1 - fires
    /\ UNCHANGED pc

\* The user ends a prompt that is on screen.  A button (Escape presses the
\* escape button, "No") becomes the prompt's clickedButton; the close box
\* rejects the prompt with no button clicked.  The prompt is hidden and its
\* finished signal runs auto_save_done.
UserAnswer ==
    /\ \E d \in OpenMsgs(msgs), a \in Answers, ok \in BOOLEAN :
        LET s == Cur(ok)
            button == CASE a \in Buttons -> a
                        [] a = "Escape" -> BtnNo
                        [] OTHER -> NoButton
            done == [s EXCEPT !.msgs[d] = [visible |-> FALSE, clicked |-> button]]
        IN  Commit(auto_save_done(done), "answer", a)
    /\ UNCHANGED <<pc, fires>>

\* The host reports a scene file event to the registered callback.
SceneEvent ==
    /\ pc = "running"
    /\ \E e \in HipFileEventTypes :
        Commit(scene_event_callback(Cur(TRUE), e), "event", e)
    /\ UNCHANGED <<pc, fires>>

\* The user switches the host's own autosave on or off.
HostAutosaveToggle ==
    /\ host_autosave' = ~host_autosave
    /\ last_op' = "host"
    /\ last_arg' = "none"
    /\ shown' = 0
    /\ saves' = 0
    /\ closes' = 0
    /\ pre_remaining' = Remaining
    /\ UNCHANGED <<pc, gui_thread, autosave_session_mute, autosave_timer,
                   autosave_msg, timers, msgs, fires>>

\* Another script of the session calls autosave_manager.start_autosave_timer.
ApiStartTimer ==
    /\ pc = "running"
    /\ \E quit \in BOOLEAN :
        Commit(start_autosave_timer(Cur(TRUE), quit), "api", IF quit THEN "quit" ELSE "start")
    /\ UNCHANGED <<pc, fires>>

Next ==
    \/ Setup
    \/ TimerTick
    \/ TimerFire
    \/ UserAnswer
    \/ SceneEvent
    \/ HostAutosaveToggle

Spec == Init /\ [][Next]_vars

\* The Qt event loop delivers time and due timeouts; the user answers prompts.
FairSpec ==
    Spec /\ WF_vars(TimerTick) /\ WF_vars(TimerFire) /\ WF_vars(UserAnswer)

NextApi ==
    \/ Next
    \/ ApiStartTimer

SpecApi == Init /\ [][NextApi]_vars

----------------------------------------------------------------------------
\* Claims

\* Scene-save events stop arriving from some point on, so that no countdown
\* is restarted for ever before it has run out.
SavesCease == <>[](~(last_op = "event" /\ last_arg = "AfterSave"))

\* C1: in a GUI-thread session that is never muted, every firing of the
\* autosave timer is eventually followed by another firing, whatever the
\* host's autosave setting is at each check.  Stated for the behaviours in
\* which the countdown is not restarted by scene saves for ever, the reading
\* of timer fairness most favourable to the claim.
C1_CheckIsPeriodic ==
    ([](gui_thread /\ ~autosave_session_mute) /\ SavesCease)
        => \A b \in {0, 1} : (last_op = "timeout" /\ fires = b) ~> (fires # b)

\* C2: a prompt is created and shown only by check_autosave on a timer
\* firing, and exactly when the host's autosave is disabled at that moment.
C2_PromptOnlyOnDisabledCheck ==
    /\ shown > 0 => (last_op = "timeout" /\ ~host_autosave)
    /\ last_op = "timeout" => (shown = 1 <=> ~host_autosave)
    /\ shown > 0 => (autosave_msg # None /\ autosave_msg \in OpenMsgs(msgs))

C2_Witness ==
    /\ last_op = "timeout"
    /\ ~host_autosave
    /\ shown = 1
    /\ autosave_msg \in OpenMsgs(msgs)

\* C3 as stated: in an unmuted GUI-thread session where the host's autosave
\* stays disabled, a prompt is eventually shown after setup, and after every
\* prompt answered with "Save" or "No" (or dismissed) another prompt is
\* eventually shown.
C3_PromptRecurs ==
    [](gui_thread /\ ~autosave_session_mute /\ ~host_autosave)
        => /\ (last_op = "setup") ~> (shown = 1)
           /\ (last_op = "answer" /\ last_arg # BtnMute) ~> (shown = 1)

\* C3 amended: the same, in the behaviours in which scene-save events do not
\* keep restarting the countdown for ever.
C3_PromptRecursUnlessSavesRestart ==
    ([](gui_thread /\ ~autosave_session_mute /\ ~host_autosave) /\ SavesCease)
        => /\ (last_op = "setup") ~> (shown = 1)
           /\ (last_op = "answer" /\ last_arg # BtnMute) ~> (shown = 1)

C3_Witness ==
    /\ gui_thread
    /\ ~autosave_session_mute
    /\ ~host_autosave
    /\ last_op = "answer"
    /\ last_arg = BtnNo
    /\ autosave_timer \in PendingTimers(timers)

\* C4: when auto_save_done returns after the user answered the prompt with
\* "Save" or "No", or dismissed it, in a GUI-thread session, the autosave
\* timer is active and the mute flag is still false.
C4_RescheduledAfterAnswer ==
    (gui_thread /\ last_op = "answer" /\ last_arg # BtnMute)
        => /\ ~autosave_session_mute
           /\ autosave_timer # None
           /\ autosave_timer \in PendingTimers(timers)

C4_Witness ==
    /\ gui_thread
    /\ last_op = "answer"
    /\ last_arg = BtnSave
    /\ saves = 1
    /\ ~autosave_session_mute
    /\ autosave_timer \in PendingTimers(timers)

\* C5: once autosave_session_mute is true it never becomes false again, and
\* in every state from then on, whatever scene events, host events and calls
\* of start_autosave_timer follow, no timer is active and no prompt is shown.
C5_MuteIsPermanent ==
    [][/\ autosave_session_mute => autosave_session_mute'
       /\ autosave_session_mute' => /\ PendingTimers(timers') = {}
                                    /\ OpenMsgs(msgs') = {}
                                    /\ shown' = 0]_vars

C5_Witness ==
    /\ autosave_session_mute
    /\ gui_thread
    /\ last_op = "api"
    /\ last_arg = "start"
    /\ PendingTimers(timers) = {}

\* C6: whenever a prompt finishes because the user clicked "No, don't ask
\* again in this session", autosave_session_mute is true and no timer is
\* active when auto_save_done has returned.
C6_MuteClickMutes ==
    (last_op = "answer" /\ last_arg = BtnMute)
        => /\ autosave_session_mute
           /\ PendingTimers(timers) = {}

\* The mute button clicked on a prompt during which a scene save had re-armed
\* the timer.
C6_Witness ==
    /\ last_op = "answer"
    /\ last_arg = BtnMute
    /\ pre_remaining >= 0
    /\ autosave_session_mute
    /\ PendingTimers(timers) = {}

\* C7: the host save is invoked only from auto_save_done when the clicked
\* button is "Save", and at most once per answered prompt.
C7_SaveOnlyOnRequest ==
    saves > 0 => (last_op = "answer" /\ last_arg = BtnSave /\ saves = 1)

C7_Witness ==
    /\ last_op = "answer"
    /\ last_arg = BtnSave
    /\ saves = 1

\* C8: when scene_event_callback has handled AfterSave in an unmuted
\* GUI-thread session, the only pending timer is autosave_timer and it has
\* the full interval left.
C8_SaveRestartsCountdown ==
    (gui_thread /\ ~autosave_session_mute /\ last_op = "event" /\ last_arg = "AfterSave")
        => /\ autosave_timer # None
           /\ PendingTimers(timers) = {autosave_timer}
           /\ timers[autosave_timer].remaining = TicksPerInterval

\* AfterSave arriving while a countdown had already run for part of its interval.
C8_Witness ==
    /\ gui_thread
    /\ ~autosave_session_mute
    /\ last_op = "event"
    /\ last_arg = "AfterSave"
    /\ pre_remaining >= 0
    /\ pre_remaining < TicksPerInterval
    /\ PendingTimers(timers) = {autosave_timer}
    /\ timers[autosave_timer].remaining = TicksPerInterval

\* C9: in every reachable state the only timer that can still fire is the
\* one autosave_timer refers to.
C9_OnePendingTimer ==
    \A t \in PendingTimers(timers) : t = autosave_timer

\* The re-entrant path: a scene save found the timer active and a prompt
\* open, close() ran auto_save_done inside start_autosave_timer, and both
\* calls armed a timer.
C9_Witness ==
    /\ last_op = "event"
    /\ last_arg = "AfterSave"
    /\ closes = 1
    /\ PendingTimers(timers) = {autosave_timer}

\* C10: while a prompt is open and unanswered, no autosave timer is active.
C10_NoTimerWhilePromptOpen ==
    OpenMsgs(msgs) # {} => PendingTimers(timers) = {}

\* C11: at most one prompt is open at any time, an open prompt is always the
\* one autosave_msg refers to, and check_autosave never creates a new prompt
\* while an earlier one is still open and unanswered.
C11_OneOpenPrompt ==
    [][/\ Cardinality(OpenMsgs(msgs')) <= 1
       /\ \A d \in OpenMsgs(msgs') : d = autosave_msg'
       /\ shown' > 0 => OpenMsgs(msgs) = {}]_vars

====
